---- MODULE Spec2Model ----
(***************************************************************************)
(* Model of src/app.py: the AQI dashboard.                                 *)
(*                                                                         *)
(*  - MQTTService: the "mailbox" (latest_data, is_connected) written by    *)
(*    the paho network thread through on_connect / on_message.             *)
(*  - show_live_monitor: the foreground poller (st.fragment, run_every=1)  *)
(*    that reads the mailbox, updates st.session_state["live_history"],   *)
(*    classifies the AQI and renders.                                      *)
(*  - get_historical_data / show_history: the Supabase history view.       *)
(*                                                                         *)
(* JSON values are tagged records so that ill-typed payloads (null, text,  *)
(* a non-object document) are values of the model like any other.          *)
(***************************************************************************)
EXTENDS Integers, Sequences, FiniteSets, TLC

VARIABLES
    app,            \* "boot" | "halted" | "running"   (module level, lines 42-48, 90)
    choice,         \* the sidebar's selected view     (line 107)
    latest_data,    \* MQTTService.latest_data, the mailbox slot
    is_connected,   \* MQTTService.is_connected
    loop_started,   \* client.loop_start() was reached in __init__
    link,           \* the transport's real state: "down" | "connected" | "subscribed"
    listener,       \* the network thread: "running" | "crashed"
    listener_log,   \* the last line the listener printed: "none" | "connected" | "received" | "error"
    discarded,      \* number of "Error parsing MQTT" lines the listener printed
    msgs,           \* number of messages the broker has delivered
    live_history,   \* st.session_state["live_history"]
    appended,       \* every entry ever passed to live_history.append, in order
    now,            \* the poller's clock: the number of the current invocation
    pc,             \* the poller's position: "idle" | "run"
    data,           \* the poller's local snapshot of the mailbox (line 118)
    poll_outcome,   \* how the last invocation ended: "none" | "ok" | an exception name
    view,           \* what the last completed invocation rendered
    store,          \* the rows of table sensor_data, in insertion order
    store_up,       \* whether a query to the store succeeds
    hist_view       \* what show_history last rendered

vars == <<app, choice, latest_data, is_connected, loop_started, link, listener,
          listener_log, discarded, msgs, live_history, appended, now, pc, data,
          poll_outcome, view, store, store_up, hist_view>>

mqttVars == <<latest_data, is_connected, loop_started, link, listener, listener_log,
              discarded, msgs>>
pollVars == <<live_history, appended, now, pc, data, poll_outcome, view>>
storeVars == <<store, store_up, hist_view>>

----------------------------------------------------------------------------
(* Bounds of the model *)

\* poller invocations explored by Spec
MaxPolls == 3
\* messages delivered in Spec
MaxMsgs == 3
\* poller invocations explored by SpecBuffer (beyond the buffer's capacity)
BufPolls == 52
\* messages delivered in SpecBuffer
BufMsgs == 2
\* largest aqi delivered in SpecClassify
MaxAqi == 305
\* rows inserted into the store in SpecHistory
MaxRows == 3

(* Program constants *)

\* capacity of the rolling history buffer
MaxHistory == 50
\* the limit show_history passes to get_historical_data
HistoryLimit == 1000

----------------------------------------------------------------------------
(* JSON values *)

IntV(n) == [t |-> "int", v |-> n]
NullV == [t |-> "null", v |-> 0]
\* a string that is not a number, such as "abc"
TextV == [t |-> "str", v |-> 0]
\* a string holding a decimal integer, such as "42"
NumStrV(n) == [t |-> "numstr", v |-> n]

\* a JSON object: f maps the keys present to their values
Obj(f) == [t |-> "obj", f |-> f]
\* a JSON document that is not an object (a list, a number, a string, null)
NonObj == [t |-> "other", f |-> <<>>]

Keys == {"aqi", "temperature", "humidity", "mq135"}

Reading(a, tmp, hum, mq) ==
    Obj([aqi |-> IntV(a), temperature |-> IntV(tmp), humidity |-> IntV(hum), mq135 |-> IntV(mq)])

\* MQTTService.__init__: the mailbox's first value
InitData == Reading(0, 0, 0, 0)

(* Message payloads: bytes that decode to a JSON document, or do not *)
Wire(doc) == [enc |-> "ok", doc |-> doc]
BadUtf8 == [enc |-> "badutf8", doc |-> NonObj]
BadJson == [enc |-> "badjson", doc |-> NonObj]

\* msg.payload.decode() followed by json.loads
Decode(m) ==
    CASE m.enc = "badutf8" -> [exc |-> "UnicodeDecodeError", val |-> NonObj]
      [] m.enc = "badjson" -> [exc |-> "JSONDecodeError", val |-> NonObj]
      [] OTHER -> [exc |-> "none", val |-> m.doc]

\* the payloads Spec delivers
Payloads ==
    { Wire(Reading(42, 25, 60, 5)),
      Wire(Reading(42, 31, 40, 400)),
      Wire(Reading(0, 25, 60, 0)),
      Wire(Obj([aqi |-> IntV(0), mq135 |-> IntV(5)])),
      Wire(Obj([aqi |-> IntV(120)])),
      Wire(Obj([aqi |-> NullV, mq135 |-> IntV(5)])),
      Wire(Obj([aqi |-> TextV, temperature |-> IntV(25)])),
      Wire(Obj([aqi |-> NumStrV(42), mq135 |-> IntV(0)])),
      Wire(Obj([aqi |-> IntV(0), mq135 |-> NullV])),
      Wire(Obj([aqi |-> IntV(120), mq135 |-> NullV])),
      Wire(NonObj),
      BadUtf8,
      BadJson }

----------------------------------------------------------------------------
(* Python operations used by the poller *)

\* data.get(k, 0)
Get(d, k) == IF k \in DOMAIN d.f THEN d.f[k] ELSE IntV(0)

\* int(x)
PyInt(x) ==
    CASE x.t = "int" -> [exc |-> "none", val |-> x.v]
      [] x.t = "numstr" -> [exc |-> "none", val |-> x.v]
      [] x.t = "null" -> [exc |-> "TypeError", val |-> 0]
      [] OTHER -> [exc |-> "ValueError", val |-> 0]

\* x > 0
GtZero(x) ==
    IF x.t = "int" THEN [exc |-> "none", val |-> x.v > 0]
    ELSE [exc |-> "TypeError", val |-> FALSE]

\* datetime.now().strftime("%H:%M:%S"): the second of the day
Label(t) == t % 86400

\* the entry of lines 131-135
Entry(t, aqi, mq) == [Timestamp |-> Label(t), aqi |-> aqi, mq135 |-> mq]

----------------------------------------------------------------------------
(* MQTTService *)

\* the return codes a CONNACK may carry: 0 accepted, 5 not authorised
ConnackCodes == {0, 5}

\* `except Exception` in on_message: the exceptions the handler absorbs
CatchesOnlyJson(exc) == exc = "JSONDecodeError"
HandlerCatches(exc) == exc \in {"UnicodeDecodeError", "JSONDecodeError"}

\* Startup as it would be without st.stop() after the error message: the
\* script runs on and constructs the MQTT service
Startup_nostop(secrets_ok, connect_ok) ==
    /\ app = "boot"
    /\ app' = "running"
    /\ latest_data' = InitData
    /\ is_connected' = FALSE
    /\ loop_started' = connect_ok
    /\ UNCHANGED <<choice, link, listener, listener_log, discarded, msgs>>
    /\ UNCHANGED pollVars
    /\ UNCHANGED storeVars

\* lines 42-48 and 90: read the secrets, create the store client, then
\* construct MQTTService (connect + loop_start inside a try)
Startup(secrets_ok, connect_ok) ==
    /\ app = "boot"
    /\ IF secrets_ok
         THEN /\ app' = "running"
              /\ latest_data' = InitData
              /\ is_connected' = FALSE
              /\ loop_started' = connect_ok
         ELSE /\ app' = "halted"
              /\ UNCHANGED <<latest_data, is_connected, loop_started>>
    /\ UNCHANGED <<choice, link, listener, listener_log, discarded, msgs>>
    /\ UNCHANGED pollVars
    /\ UNCHANGED storeVars

\* the broker answers the connection attempt; paho calls on_connect(rc)
on_connect(rc) ==
    /\ app = "running" /\ loop_started /\ listener = "running"
    /\ link = "down"
    /\ IF rc = 0
         THEN /\ is_connected' = TRUE
              /\ listener_log' = "connected"
              /\ link' = "connected"      \* client.subscribe sent, not yet acknowledged
         ELSE UNCHANGED <<is_connected, listener_log, link>>
    /\ UNCHANGED <<app, choice, latest_data, loop_started, listener, discarded, msgs>>
    /\ UNCHANGED pollVars
    /\ UNCHANGED storeVars

\* the broker answers the SUBSCRIBE of line 77; no on_subscribe callback is set
Suback(granted) ==
    /\ app = "running" /\ listener = "running"
    /\ link = "connected"
    /\ link' = IF granted THEN "subscribed" ELSE "connected"
    /\ UNCHANGED <<app, choice, latest_data, is_connected, loop_started, listener,
                   listener_log, discarded, msgs>>
    /\ UNCHANGED pollVars
    /\ UNCHANGED storeVars

\* the transport drops; no on_disconnect callback is set (lines 63-65), paho
\* reconnects by itself and then calls on_connect again
TransportDisconnect ==
    /\ app = "running" /\ listener = "running"
    /\ link # "down"
    /\ link' = "down"
    /\ UNCHANGED <<app, choice, latest_data, is_connected, loop_started, listener,
                   listener_log, discarded, msgs>>
    /\ UNCHANGED pollVars
    /\ UNCHANGED storeVars

\* on_message as it would be if the callback wrote the sample to the session
\* state itself, which the comment of lines 81-82 rules out
on_message_session(m) ==
    /\ app = "running" /\ listener = "running"
    /\ link = "subscribed"
    /\ msgs' = msgs + 1
    /\ LET r == Decode(m) IN
         IF r.exc = "none"
           THEN /\ latest_data' = r.val
                /\ listener_log' = "received"
                /\ live_history' = Append(live_history, Entry(now, 0, IntV(0)))
                /\ UNCHANGED <<listener, discarded>>
           ELSE /\ listener_log' = "error"
                /\ discarded' = discarded + 1
                /\ UNCHANGED <<latest_data, listener, live_history>>
    /\ UNCHANGED <<app, choice, is_connected, loop_started, link>>
    /\ UNCHANGED <<appended, now, pc, data, poll_outcome, view>>
    /\ UNCHANGED storeVars

\* on_message as it would be with latest_data.update(payload) in place of the
\* assignment of line 84: keys of earlier messages survive
on_message_update(m) ==
    /\ app = "running" /\ listener = "running"
    /\ link = "subscribed"
    /\ msgs' = msgs + 1
    /\ LET r == Decode(m) IN
         IF r.exc = "none" /\ r.val.t = "obj" /\ latest_data.t = "obj"
           THEN /\ latest_data' =
                     Obj([k \in DOMAIN latest_data.f \cup DOMAIN r.val.f |->
                            IF k \in DOMAIN r.val.f THEN r.val.f[k] ELSE latest_data.f[k]])
                /\ listener_log' = "received"
                /\ UNCHANGED <<listener, discarded>>
           ELSE IF r.exc = "none"
             THEN /\ latest_data' = r.val
                  /\ listener_log' = "received"
                  /\ UNCHANGED <<listener, discarded>>
             ELSE /\ listener_log' = "error"
                  /\ discarded' = discarded + 1
                  /\ UNCHANGED <<latest_data, listener>>
    /\ UNCHANGED <<app, choice, is_connected, loop_started, link>>
    /\ UNCHANGED pollVars
    /\ UNCHANGED storeVars

\* a message on the subscribed topic; paho calls on_message(msg)
on_message(m) ==
    /\ app = "running" /\ listener = "running"
    /\ link = "subscribed"
    /\ msgs' = msgs + 1
    /\ LET r == Decode(m) IN
         IF r.exc = "none"
           THEN /\ latest_data' = r.val
                /\ listener_log' = "received"
                /\ UNCHANGED <<listener, discarded>>
           ELSE IF HandlerCatches(r.exc)
             THEN /\ listener_log' = "error"
                  /\ discarded' = discarded + 1
                  /\ UNCHANGED <<latest_data, listener>>
             ELSE /\ listener' = "crashed"     \* the exception leaves the callback
                  /\ UNCHANGED <<latest_data, listener_log, discarded>>
    /\ UNCHANGED <<app, choice, is_connected, loop_started, link>>
    /\ UNCHANGED pollVars
    /\ UNCHANGED storeVars

----------------------------------------------------------------------------
(* show_live_monitor *)

Live == "Current Data (Live)"
History == "Stored Data (History)"
Forecast == "Future AQI Forecasting"

\* the colour logic, lines 142-147
classify_exclusive(aqi) ==
    IF aqi < 50 THEN [status |-> "Good", color |-> "#00e400"]
    ELSE IF aqi <= 100 THEN [status |-> "Moderate", color |-> "#ffff00"]
    ELSE IF aqi <= 150 THEN [status |-> "Poor", color |-> "#ff7e00"]
    ELSE IF aqi <= 200 THEN [status |-> "Unhealthy", color |-> "#ff0000"]
    ELSE IF aqi < 300 THEN [status |-> "Very Unhealthy", color |-> "#8f3f97"]
    ELSE [status |-> "Hazardous", color |-> "#7e0023"]
classify(aqi) ==
    IF aqi <= 50 THEN [status |-> "Good", color |-> "#00e400"]
    ELSE IF aqi <= 100 THEN [status |-> "Moderate", color |-> "#ffff00"]
    ELSE IF aqi <= 150 THEN [status |-> "Poor", color |-> "#ff7e00"]
    ELSE IF aqi <= 200 THEN [status |-> "Unhealthy", color |-> "#ff0000"]
    ELSE IF aqi <= 300 THEN [status |-> "Very Unhealthy", color |-> "#8f3f97"]
    ELSE [status |-> "Hazardous", color |-> "#7e0023"]

\* `aqi > 0 or mq135_val > 0` (line 130): the right operand is evaluated only
\* when the left one is false
\* the filter as it would be with >= in place of >
ShouldAppend_always(aqi, mq) == [exc |-> "none", val |-> TRUE]
ShouldAppend_and(aqi, mq) ==
    IF aqi > 0 THEN GtZero(mq) ELSE [exc |-> "none", val |-> FALSE]
ShouldAppend(aqi, mq) ==
    IF aqi > 0 THEN [exc |-> "none", val |-> TRUE] ELSE GtZero(mq)

\* lines 138-139: drop the oldest entry when the list is longer than 50
\* the trim as it would be with deduplication: a new entry that repeats the
\* aqi and mq135 of the entry before it is dropped
Trimmed_dedup(h) ==
    LET n == Len(h) IN
      IF n >= 2 /\ h[n].aqi = h[n - 1].aqi /\ h[n].mq135 = h[n - 1].mq135
        THEN SubSeq(h, 1, n - 1)
        ELSE IF n > MaxHistory THEN Tail(h) ELSE h
Trimmed_late(h) == IF Len(h) > MaxHistory + 1 THEN Tail(h) ELSE h
Trimmed_newest(h) == IF Len(h) > MaxHistory THEN SubSeq(h, 1, Len(h) - 1) ELSE h
Trimmed(h) == IF Len(h) > MaxHistory THEN Tail(h) ELSE h

\* nothing rendered yet
NoView ==
    [aqi |-> 0, temperature |-> IntV(0), humidity |-> IntV(0), mq135 |-> IntV(0),
     status |-> "", color |-> "", connecting |-> FALSE, waiting |-> FALSE]

\* PollRead as it would be if reading the mailbox emptied it
PollRead_consume ==
    /\ app = "running" /\ choice = Live
    /\ pc = "idle"
    /\ now' = now + 1
    /\ data' = latest_data
    /\ latest_data' = InitData
    /\ pc' = "run"
    /\ UNCHANGED <<live_history, appended, poll_outcome, view>>
    /\ UNCHANGED <<app, choice>>
    /\ UNCHANGED <<is_connected, loop_started, link, listener, listener_log, discarded, msgs>>
    /\ UNCHANGED storeVars

\* line 118: the fragment's timer fires and the poller takes its snapshot
PollRead ==
    /\ app = "running" /\ choice = Live
    /\ pc = "idle"
    /\ now' = now + 1
    /\ data' = latest_data
    /\ pc' = "run"
    /\ UNCHANGED <<live_history, appended, poll_outcome, view>>
    /\ UNCHANGED <<app, choice>>
    /\ UNCHANGED mqttVars
    /\ UNCHANGED storeVars

\* the invocation ends with an uncaught exception before anything is appended
\* or rendered
PollRaise(exc) ==
    /\ poll_outcome' = exc
    /\ UNCHANGED <<live_history, appended, view>>

\* show_live_monitor with two slips built in: the fields other than aqi are
\* read from `other` instead of the snapshot, and with `combined` the severity is
\* taken from the larger of aqi and mq135
PollRunVariant(other, combined) ==
    /\ app = "running"
    /\ pc = "run"
    /\ pc' = "idle"
    /\ data' = InitData
    /\ IF data.t # "obj" \/ other.t # "obj"
         THEN PollRaise("AttributeError")
         ELSE
           LET aqi == PyInt(Get(data, "aqi"))
               temp == Get(other, "temperature")
               hum == Get(other, "humidity")
               mq135_val == Get(other, "mq135")
               cond == ShouldAppend(aqi.val, mq135_val)
               e == Entry(now, aqi.val, mq135_val)
               h1 == IF cond.val THEN Append(live_history, e) ELSE live_history
               h2 == Trimmed(h1)
               sev == IF combined /\ mq135_val.t = "int" /\ mq135_val.v > aqi.val
                        THEN mq135_val.v ELSE aqi.val
               c == classify(sev)
           IN  IF aqi.exc # "none" THEN PollRaise(aqi.exc)
               ELSE IF cond.exc # "none" THEN PollRaise(cond.exc)
               ELSE /\ live_history' = h2
                    /\ appended' = IF cond.val THEN Append(appended, e) ELSE appended
                    /\ view' = [aqi |-> aqi.val, temperature |-> temp, humidity |-> hum,
                                mq135 |-> mq135_val, status |-> c.status, color |-> c.color,
                                connecting |-> ~is_connected, waiting |-> h2 = <<>>]
                    /\ poll_outcome' = "ok"
    /\ UNCHANGED now
    /\ UNCHANGED <<app, choice>>
    /\ UNCHANGED mqttVars
    /\ UNCHANGED storeVars

\* the poller reading mqtt_service.latest_data again for each field
PollRun_reread == PollRunVariant(latest_data, FALSE)
\* the poller colouring by the worse of aqi and mq135
PollRun_combined == PollRunVariant(data, TRUE)

\* lines 120-185 on the snapshot
PollRun ==
    /\ app = "running"
    /\ pc = "run"
    /\ pc' = "idle"
    /\ data' = InitData                   \* the local goes out of scope
    /\ IF data.t # "obj"
         THEN PollRaise("AttributeError")  \* data.get on a non-mapping
         ELSE
           LET aqi == PyInt(Get(data, "aqi"))
               temp == Get(data, "temperature")
               hum == Get(data, "humidity")
               mq135_val == Get(data, "mq135")
               cond == ShouldAppend(aqi.val, mq135_val)
               e == Entry(now, aqi.val, mq135_val)
               h1 == IF cond.val THEN Append(live_history, e) ELSE live_history
               h2 == Trimmed(h1)
               c == classify(aqi.val)
           IN  IF aqi.exc # "none" THEN PollRaise(aqi.exc)
               ELSE IF cond.exc # "none" THEN PollRaise(cond.exc)
               ELSE /\ live_history' = h2
                    /\ appended' = IF cond.val THEN Append(appended, e) ELSE appended
                    /\ view' = [aqi |-> aqi.val, temperature |-> temp, humidity |-> hum,
                                mq135 |-> mq135_val, status |-> c.status, color |-> c.color,
                                connecting |-> ~is_connected, waiting |-> h2 = <<>>]
                    /\ poll_outcome' = "ok"
    /\ UNCHANGED now
    /\ UNCHANGED <<app, choice>>
    /\ UNCHANGED mqttVars
    /\ UNCHANGED storeVars

----------------------------------------------------------------------------
(* The history view: get_historical_data and show_history *)

Min(a, b) == IF a <= b THEN a ELSE b
Range(s) == {s[i] : i \in 1..Len(s)}
Reverse(s) == [i \in 1..Len(s) |-> s[Len(s) + 1 - i]]
Take(s, n) == SubSeq(s, 1, Min(n, Len(s)))

\* supabase.table("sensor_data").select("*").order("id", desc=True).limit(limit).execute()
Query(limit) ==
    IF store_up
      THEN [exc |-> "none", data |-> Take(Reverse(store), limit)]
      ELSE [exc |-> "APIError", data |-> <<>>]

\* lines 95-102; the result says whether the call raised, and what it returned
get_historical_data_raising(limit) ==
    LET response == Query(limit) IN
      IF response.exc # "none" THEN [exc |-> response.exc, rows |-> <<>>]
      ELSE [exc |-> "none", rows |-> response.data]
\* get_historical_data as it would be if it fetched only the rows the view does
\* not show yet
get_historical_data_incremental(limit) ==
    LET response == Query(limit)
        shown == {r.id : r \in Range(hist_view.rows)}
    IN  IF response.exc # "none" THEN [exc |-> "none", rows |-> <<>>]
        ELSE [exc |-> "none", rows |-> SelectSeq(response.data, LAMBDA r : r.id \notin shown)]
get_historical_data(limit) ==
    LET response == Query(limit) IN
      IF response.exc # "none" THEN [exc |-> "none", rows |-> <<>>]
      ELSE IF response.data # <<>> THEN [exc |-> "none", rows |-> response.data]
      ELSE [exc |-> "none", rows |-> <<>>]

\* lines 199-211: rename created_at to Timestamp, drop the rows whose timestamp
\* does not parse (created_at = 0 here), sort ascending by Timestamp
Normalised(rows) ==
    LET kept == {r \in Range(rows) : r.created_at # 0}
        before(r) == Cardinality({q \in kept : q.created_at < r.created_at})
    IN  [i \in 1..Cardinality(kept) |->
            LET r == CHOOSE x \in kept : before(x) = i - 1
            IN  [id |-> r.id, Timestamp |-> r.created_at]]

NoHistView == [state |-> "none", rows |-> <<>>]

\* the sidebar radio, line 107: the user picks a view and the script reruns
SelectView(c) ==
    /\ app = "running"
    /\ pc = "idle"
    /\ choice # c
    /\ choice' = c
    /\ UNCHANGED app
    /\ UNCHANGED mqttVars
    /\ UNCHANGED pollVars
    /\ UNCHANGED storeVars

\* a device writes a row to sensor_data; ids are serial, created_at is the
\* insertion instant, or text that does not parse as a timestamp
StoreInsert(parseable) ==
    /\ Len(store) < MaxRows
    /\ LET id == Len(store) + 1 IN
         store' = Append(store, [id |-> id, created_at |-> IF parseable THEN id ELSE 0])
    /\ UNCHANGED <<store_up, hist_view>>
    /\ UNCHANGED <<app, choice>>
    /\ UNCHANGED mqttVars
    /\ UNCHANGED pollVars

\* the store, or the network to it, fails or recovers
StoreFlip ==
    /\ store_up' = ~store_up
    /\ UNCHANGED <<store, hist_view>>
    /\ UNCHANGED <<app, choice>>
    /\ UNCHANGED mqttVars
    /\ UNCHANGED pollVars

\* lines 190-215
show_history ==
    /\ app = "running" /\ choice = History
    /\ LET got == get_historical_data(HistoryLimit) IN
         hist_view' =
           IF got.exc # "none" THEN [state |-> "raised", rows |-> <<>>]
           ELSE IF got.rows = <<>> THEN [state |-> "no_data", rows |-> <<>>]
           ELSE [state |-> "table", rows |-> Normalised(got.rows)]
    /\ UNCHANGED <<store, store_up>>
    /\ UNCHANGED <<app, choice>>
    /\ UNCHANGED mqttVars
    /\ UNCHANGED pollVars

\* line 225: the forecasting view shows a title and "Coming soon..."; it reads
\* and writes no state
show_forecast ==
    /\ app = "running" /\ choice = Forecast
    /\ UNCHANGED vars

----------------------------------------------------------------------------
(* Specifications *)

Init ==
    /\ app = "boot"
    /\ choice = Live
    /\ latest_data = InitData
    /\ is_connected = FALSE
    /\ loop_started = FALSE
    /\ link = "down"
    /\ listener = "running"
    /\ listener_log = "none"
    /\ discarded = 0
    /\ msgs = 0
    /\ live_history = <<>>
    /\ appended = <<>>
    /\ now = 0
    /\ pc = "idle"
    /\ data = InitData
    /\ poll_outcome = "none"
    /\ view = NoView
    /\ store = <<>>
    /\ store_up = TRUE
    /\ hist_view = NoHistView

Deliver == \E m \in Payloads : msgs < MaxMsgs /\ on_message(m)
Tick == now < MaxPolls /\ PollRead

Next ==
    \/ \E s, c \in BOOLEAN : Startup(s, c)
    \/ \E rc \in ConnackCodes : on_connect(rc)
    \/ \E g \in BOOLEAN : Suback(g)
    \/ TransportDisconnect
    \/ Deliver
    \/ Tick
    \/ PollRun

Spec == Init /\ [][Next]_vars

(* The live view once the listener is subscribed: a state Spec reaches by     *)
(* Startup(TRUE, TRUE), on_connect(0), Suback(TRUE).                          *)
LiveReady ==
    /\ app = "running"
    /\ choice = Live
    /\ latest_data = InitData
    /\ is_connected = TRUE
    /\ loop_started = TRUE
    /\ link = "subscribed"
    /\ listener = "running"
    /\ listener_log = "connected"
    /\ discarded = 0
    /\ msgs = 0
    /\ live_history = <<>>
    /\ appended = <<>>
    /\ now = 0
    /\ pc = "idle"
    /\ data = InitData
    /\ poll_outcome = "none"
    /\ view = NoView
    /\ store = <<>>
    /\ store_up = TRUE
    /\ hist_view = NoHistView

(* SpecBuffer: the rolling buffer driven past its capacity *)
BufPayloads == {Wire(Reading(42, 25, 60, 5)), Wire(Reading(0, 25, 60, 0))}
DeliverBuf == \E m \in BufPayloads : msgs < BufMsgs /\ on_message(m)
TickBuf == now < BufPolls /\ PollRead
NextBuffer == DeliverBuf \/ TickBuf \/ PollRun
SpecBuffer == LiveReady /\ [][NextBuffer]_vars

(* SpecClassify: one poll of every aqi in 0..MaxAqi *)
DeliverAqi == \E a \in 0..MaxAqi : msgs = 0 /\ on_message(Wire(Reading(a, 25, 60, 5)))
TickOnce == now = 0 /\ PollRead
NextClassify == DeliverAqi \/ TickOnce \/ PollRun
SpecClassify == LiveReady /\ [][NextClassify]_vars

(* SpecHistory: the history view over a store that changes and fails *)
NextHistory ==
    \/ \E s, c \in BOOLEAN : Startup(s, c)
    \/ \E c \in {Live, History, Forecast} : SelectView(c)
    \/ \E p \in BOOLEAN : StoreInsert(p)
    \/ StoreFlip
    \/ show_history
SpecHistory == Init /\ [][NextHistory]_vars

(* SpecStartup: start-up, the three views and the transport, without messages *)
NextStartup ==
    \/ \E s, c \in BOOLEAN : Startup(s, c)
    \/ \E rc \in ConnackCodes : on_connect(rc)
    \/ \E g \in BOOLEAN : Suback(g)
    \/ TransportDisconnect
    \/ \E c \in {Live, History, Forecast} : SelectView(c)
    \/ StoreFlip
    \/ Tick
    \/ PollRun
    \/ show_history
    \/ show_forecast
SpecStartup == Init /\ [][NextStartup]_vars

\* every step the application itself, its listener or its views can take
ProgramStep ==
    \/ \E rc \in ConnackCodes : on_connect(rc)
    \/ \E g \in BOOLEAN : Suback(g)
    \/ TransportDisconnect
    \/ \E m \in Payloads : on_message(m)
    \/ \E c \in {Live, History, Forecast} : SelectView(c)
    \/ PollRead
    \/ PollRun
    \/ show_history
    \/ show_forecast

----------------------------------------------------------------------------
(* Claims *)

PollRunStep == pc = "run" /\ pc' = "idle"

\* C1: the severity shown by a completed poll is the bucket of the aqi shown,
\* with inclusive upper bounds 50, 100, 150, 200, 300: 0..50 Good, 51..100
\* Moderate, 101..150 Poor, 151..200 Unhealthy, 201..300 Very Unhealthy,
\* 301 and above Hazardous, each with its colour.
C1_SeverityBuckets ==
    (poll_outcome = "ok" /\ view.aqi >= 0) =>
        /\ view.aqi \in 0..50 =>
             view.status = "Good" /\ view.color = "#00e400"
        /\ view.aqi \in 51..100 =>
             view.status = "Moderate" /\ view.color = "#ffff00"
        /\ view.aqi \in 101..150 =>
             view.status = "Poor" /\ view.color = "#ff7e00"
        /\ view.aqi \in 151..200 =>
             view.status = "Unhealthy" /\ view.color = "#ff0000"
        /\ view.aqi \in 201..300 =>
             view.status = "Very Unhealthy" /\ view.color = "#8f3f97"
        /\ view.aqi >= 301 =>
             view.status = "Hazardous" /\ view.color = "#7e0023"
        /\ Cardinality({b \in {"Good", "Moderate", "Poor", "Unhealthy",
                               "Very Unhealthy", "Hazardous"} : view.status = b}) = 1
C1_Witness ==
    poll_outcome = "ok" /\ view.aqi = 300 /\ view.status = "Very Unhealthy"

\* C2 (as claimed): once the service exists the mailbox slot is always a mapping
\* that holds all four keys aqi, temperature, humidity, mq135 with numeric values.
C2_SlotFullyFormed ==
    app = "running" =>
        /\ latest_data.t = "obj"
        /\ DOMAIN latest_data.f = Keys
        /\ \A k \in Keys : latest_data.f[k].t = "int"

\* C3: the rolling history buffer never holds more than 50 entries.
C3_HistoryCapped == Len(live_history) <= MaxHistory
C3_Witness == Len(live_history) = MaxHistory /\ Len(appended) > MaxHistory

\* C4: the buffer holds exactly the last min(n, 50) of the n entries appended so
\* far, in append order, oldest first.
C4_HistoryIsFifo ==
    LET n == Len(appended)
        k == Min(n, MaxHistory)
    IN  /\ Len(live_history) = k
        /\ \A i \in 1..k : live_history[i] = appended[n - k + i]
C4_Witness ==
    /\ Len(appended) = MaxHistory + 1
    /\ Len(live_history) = MaxHistory
    /\ live_history[1] = appended[2]
    /\ live_history[MaxHistory] = appended[MaxHistory + 1]
    /\ live_history[1] # appended[1]

\* C5: a poll whose snapshot is a mapping with an integer aqi (an absent key
\* counting as 0), and an integer mq135 unless aqi > 0 already decides, appends
\* exactly one entry carrying that aqi and mq135 when aqi > 0 or mq135 > 0, and
\* leaves the buffer as it was otherwise.
C5_MeaningfulFilter ==
    [][ (/\ PollRunStep
         /\ data.t = "obj"
         /\ Get(data, "aqi").t = "int"
         /\ (Get(data, "aqi").v > 0 \/ Get(data, "mq135").t = "int"))
        =>
        IF Get(data, "aqi").v > 0 \/ Get(data, "mq135").v > 0
          THEN /\ Len(appended') = Len(appended) + 1
               /\ Len(live_history') = Min(Len(live_history) + 1, MaxHistory)
               /\ live_history'[Len(live_history')].aqi = Get(data, "aqi").v
               /\ live_history'[Len(live_history')].mq135 = Get(data, "mq135")
               /\ live_history'[Len(live_history')].Timestamp = Label(now)
          ELSE /\ live_history' = live_history
               /\ appended' = appended ]_vars
C5_Witness ==
    /\ poll_outcome = "ok"
    /\ view.aqi = 0 /\ view.mq135 = IntV(5)
    /\ live_history # <<>>
    /\ live_history[Len(live_history)].aqi = 0
    /\ live_history[Len(live_history)].mq135 = IntV(5)
    /\ live_history[Len(live_history)].Timestamp = Label(now)

\* C6 (as claimed): whenever the transport is down, is_connected is false.
C6_DisconnectClearsFlag == link = "down" => ~is_connected

\* C7 (as claimed): a poll that renders while the listener is not subscribed
\* renders the "connecting" indicator.
C7_ConnectingShown ==
    [][ (PollRunStep /\ poll_outcome' = "ok" /\ link # "subscribed")
        => view'.connecting ]_vars

\* C8 (as claimed): no poller invocation ends with an exception, whatever JSON
\* document the listener stored in the slot.
C8_PollNeverRaises == poll_outcome \in {"none", "ok"}

\* C9: handling a payload that does not decode (bad UTF-8 or bad JSON) leaves
\* the mailbox slot as it was and the listener running and subscribed, so
\* later messages are still handled.
C9_MalformedDiscarded ==
    [][ \A m \in {BadUtf8, BadJson} :
          on_message(m) =>
            /\ latest_data' = latest_data
            /\ listener' = "running"
            /\ link' = "subscribed" ]_vars
C9_Witness ==
    /\ discarded >= 1
    /\ listener = "running"
    /\ listener_log = "received"
    /\ latest_data = Reading(42, 25, 60, 5)

\* C10: show_history never ends with an exception from get_historical_data,
\* and when the query fails or the store is empty it renders "no data" from an
\* empty result and nothing else.
C10_FetchNeverRaises ==
    [][ show_history =>
          /\ hist_view'.state # "raised"
          /\ (~store_up \/ store = <<>>) =>
                hist_view' = [state |-> "no_data", rows |-> <<>>] ]_vars
C10_Witness ==
    hist_view.state = "no_data" /\ ~store_up /\ store # <<>>

PollReadStep == pc = "idle" /\ pc' = "run"
ListenerStep ==
    \/ msgs' # msgs
    \/ latest_data' # latest_data
    \/ is_connected' # is_connected
    \/ listener_log' # listener_log
    \/ link' # link

\* C11: no step of the listener (on_connect, on_message, or any change of the
\* transport) changes the rolling history buffer; the buffer changes only in
\* the step that completes a poller invocation.
C11_ListenerLeavesHistory ==
    [][ /\ ListenerStep => live_history' = live_history
        /\ live_history' # live_history => PollRunStep ]_vars
C11_Witness ==
    /\ pc = "run"
    /\ msgs >= 2
    /\ data # latest_data
    /\ live_history # <<>>

\* C12: after construction the mailbox slot changes only in a step that
\* handles a message on the subscribed topic, and both steps of a poller
\* invocation leave it as it was.
C12_SingleWriter ==
    [][ /\ latest_data' # latest_data =>
              (msgs' = msgs + 1 /\ link = "subscribed" /\ pc' = pc)
        /\ (PollReadStep \/ PollRunStep) => latest_data' = latest_data ]_vars
C12_Witness ==
    /\ pc = "idle"
    /\ poll_outcome = "ok"
    /\ view.aqi = 42
    /\ latest_data = Reading(42, 25, 60, 5)
    /\ live_history # <<>>

\* C13: last write wins. Handling a well-formed message leaves exactly that
\* message in the slot, whatever was there; a poll's snapshot is the slot as it
\* is when the poll starts; and what the poll shows and appends is taken from
\* its snapshot alone. So of the messages handled between two polls only the
\* last reaches the display and the buffer.
C13_LastWriteWins ==
    [][ /\ \A m \in Payloads :
              (on_message(m) /\ Decode(m).exc = "none") => latest_data' = m.doc
        /\ PollReadStep => data' = latest_data
        /\ (PollRunStep /\ poll_outcome' = "ok") =>
              /\ view'.aqi = PyInt(Get(data, "aqi")).val
              /\ view'.mq135 = Get(data, "mq135")
              /\ \/ appended' = appended
                 \/ appended' = Append(appended, Entry(now, view'.aqi, view'.mq135)) ]_vars
C13_Witness ==
    /\ msgs = 2 /\ discarded = 0
    /\ now = 1 /\ pc = "idle" /\ poll_outcome = "ok"
    /\ latest_data = Obj([aqi |-> IntV(120)])
    /\ view.aqi = 120 /\ view.temperature = IntV(0)
    /\ appended = <<Entry(1, 120, IntV(0))>>

\* C14: when reading the secrets or creating the store client fails, start-up
\* ends halted; and in the halted application the MQTT service was never
\* constructed (no network loop, no connection, no message handled), no view
\* has rendered, and no step of the listener or of any view can be taken.
C14_StartupFatal ==
    /\ [][ \A c \in BOOLEAN : Startup(FALSE, c) => app' = "halted" ]_vars
    /\ [](app = "halted" =>
            /\ ~loop_started /\ ~is_connected /\ link = "down"
            /\ msgs = 0 /\ listener_log = "none"
            /\ now = 0 /\ poll_outcome = "none" /\ view = NoView
            /\ hist_view = NoHistView
            /\ ~ENABLED ProgramStep)
C14_Witness == app = "halted" /\ ~store_up

\* the limits a caller may pass: below, at and above the number of rows
Limits == 1..(MaxRows + 1)

C16_SingleSnapshot ==
    [][ /\ PollReadStep => data' = latest_data
        /\ (PollRunStep /\ poll_outcome' = "ok") =>
              /\ view'.aqi = PyInt(Get(data, "aqi")).val
              /\ view'.temperature = Get(data, "temperature")
              /\ view'.humidity = Get(data, "humidity")
              /\ view'.mq135 = Get(data, "mq135")
              /\ view'.status = classify(PyInt(Get(data, "aqi")).val).status
              /\ view'.color = classify(PyInt(Get(data, "aqi")).val).color
              /\ appended' # appended =>
                    /\ appended'[Len(appended')].aqi = PyInt(Get(data, "aqi")).val
                    /\ appended'[Len(appended')].mq135 = Get(data, "mq135")
              /\ live_history' # live_history =>
                    live_history'[Len(live_history')] = appended'[Len(appended')] ]_vars
\* a completed first poll that shows the reading it read, while the slot already
\* holds the message that arrived during the invocation
C16_Witness ==
    /\ now = 1 /\ pc = "idle" /\ poll_outcome = "ok"
    /\ msgs = 2 /\ discarded = 0
    /\ view.aqi = 42 /\ view.mq135 = IntV(5) /\ view.temperature = IntV(25)
    /\ live_history = <<Entry(1, 42, IntV(5))>>
    /\ latest_data = Obj([aqi |-> IntV(120)])

\* C17: no deduplication. A completed poll of a meaningful snapshot (aqi > 0 or
\* mq135 > 0) whose aqi and mq135 repeat those of the entry the previous
\* invocation appended still adds one entry at the end of the buffer, with the
\* same aqi and mq135 and this invocation's timestamp label, the buffer growing
\* by one up to the cap of 50.
C17_NoDeduplication ==
    [][ (/\ PollRunStep /\ poll_outcome' = "ok"
         /\ live_history # <<>>
         /\ live_history[Len(live_history)].Timestamp = Label(now - 1)
         /\ live_history[Len(live_history)].aqi = PyInt(Get(data, "aqi")).val
         /\ live_history[Len(live_history)].mq135 = Get(data, "mq135"))
        =>
        /\ Len(live_history') = Min(Len(live_history) + 1, MaxHistory)
        /\ live_history'[Len(live_history')] =
              Entry(now, PyInt(Get(data, "aqi")).val, Get(data, "mq135"))
        /\ live_history'[Len(live_history') - 1] = live_history[Len(live_history)] ]_vars
\* three invocations in a row, no message between them, three entries
C17_Witness ==
    /\ msgs = 1 /\ now >= 3 /\ pc = "idle"
    /\ Len(live_history) >= 3
    /\ \A i \in (Len(live_history) - 2)..Len(live_history) :
          /\ live_history[i].aqi = 42
          /\ live_history[i].mq135 = IntV(5)
          /\ live_history[i].Timestamp = Label(now - (Len(live_history) - i))

\* C18: only aqi drives severity. A completed poll that shows the same aqi as
\* the completed poll before it shows the same severity label and colour,
\* whatever the temperature, humidity and mq135 of the two snapshots.
C18_OnlyAqiDrivesSeverity ==
    [][ (/\ PollRunStep
         /\ poll_outcome = "ok" /\ poll_outcome' = "ok"
         /\ view'.aqi = view.aqi)
        => (view'.status = view.status /\ view'.color = view.color) ]_vars
\* two polls in a row with aqi 42, the first with mq135 5 and the second with
\* mq135 400 and another temperature and humidity
C18_Witness ==
    /\ now = 2 /\ pc = "idle" /\ poll_outcome = "ok"
    /\ view.aqi = 42 /\ view.mq135 = IntV(400) /\ view.status = "Good"
    /\ live_history = <<Entry(1, 42, IntV(5)), Entry(2, 42, IntV(400))>>

\* C19: every entry of the buffer, and every entry ever appended, has aqi > 0
\* or mq135 > 0; and while no message has been handled, or only one that
\* carried aqi 0 and mq135 0 or was discarded, the buffer is empty however
\* many polls have run.
C19_OnlyMeaningfulEntries ==
    /\ \A i \in 1..Len(appended) :
          \/ appended[i].aqi > 0
          \/ (appended[i].mq135.t = "int" /\ appended[i].mq135.v > 0)
    /\ \A i \in 1..Len(live_history) :
          \/ live_history[i].aqi > 0
          \/ (live_history[i].mq135.t = "int" /\ live_history[i].mq135.v > 0)
    /\ (/\ msgs <= 1
        /\ latest_data \in {InitData, Reading(0, 25, 60, 0)}) =>
          (live_history = <<>> /\ appended = <<>>)
C19_Witness ==
    /\ now >= 2 /\ pc = "idle" /\ poll_outcome = "ok"
    /\ msgs = 1 /\ latest_data = Reading(0, 25, 60, 0)
    /\ view.temperature = IntV(25)
    /\ live_history = <<>>

====
